---- MODULE Spec2Model ----
(***************************************************************************)
(* A model of the gdrive MCP server: the request handlers registered on    *)
(* the protocol server (list-tools, call-tool), readFileContent and the    *)
(* start-up code, as found in src/index.ts (the HTTP build) and in         *)
(* src/unnamed/part_000 (the stdio build, which also offers gdrive_auth).  *)
(*                                                                         *)
(* Text is modelled as a sequence of atoms.  A query is a sequence of      *)
(* single characters; a MIME type is a sequence of tokens cut at the       *)
(* places the code's startsWith tests look at ("text/", "application/",    *)
(* "vnd.google-apps"); file content is a sequence of code points; bytes    *)
(* are numbers 0..255.                                                     *)
(***************************************************************************)
EXTENDS Integers, Sequences, FiniteSets, TLC

(***************************************************************************)
(* Bounds of the model.                                                    *)
(***************************************************************************)
MaxQueryLen == 3
MaxBytesLen == 3
MaxTextLen == 2
MaxFiles == 2
MaxIdParts == 2
MaxTransports == 3

(***************************************************************************)
(* Generic sequence helpers.                                               *)
(***************************************************************************)
SeqsUpTo(S, n) == UNION { [1..k -> S] : k \in 0..n }

startsWith(s, p) == Len(s) >= Len(p) /\ SubSeq(s, 1, Len(p)) = p

\* String.prototype.replace with a global one-character pattern: every
\* occurrence of ch in s is replaced by the sequence rep, left to right.
RECURSIVE replaceAll(_, _, _)
replaceAll(s, ch, rep) ==
  IF s = <<>> THEN <<>>
  ELSE (IF Head(s) = ch THEN rep ELSE <<Head(s)>>) \o replaceAll(Tail(s), ch, rep)

\* Every occurrence of pat removed.
RECURSIVE removeEvery(_, _)
removeEvery(s, pat) ==
  IF s = <<>> THEN <<>>
  ELSE IF startsWith(s, pat)
       THEN removeEvery(SubSeq(s, Len(pat) + 1, Len(s)), pat)
       ELSE <<Head(s)>> \o removeEvery(Tail(s), pat)

\* String.prototype.replace with a string pattern: the first occurrence
\* only.
replaceFirst(s, pat, rep) ==
  LET hits == { i \in 1..(Len(s) - Len(pat) + 1) : SubSeq(s, i, i + Len(pat) - 1) = pat }
  IN IF hits = {} THEN s
     ELSE LET i == CHOOSE h \in hits : \A g \in hits : h <= g
          IN SubSeq(s, 1, i - 1) \o rep \o SubSeq(s, i + Len(pat), Len(s))

\* Array.prototype.join
RECURSIVE join(_, _)
join(parts, sep) ==
  IF parts = <<>> THEN <<>>
  ELSE IF Len(parts) = 1 THEN Head(parts)
  ELSE Head(parts) \o sep \o join(Tail(parts), sep)

\* Number to decimal text, as a template literal prints it.
DigitChars == <<"0", "1", "2", "3", "4", "5", "6", "7", "8", "9">>
RECURSIVE numberToString(_)
numberToString(n) ==
  IF n < 10 THEN <<DigitChars[n + 1]>>
  ELSE numberToString(n \div 10) \o <<DigitChars[(n % 10) + 1]>>

(***************************************************************************)
(* JavaScript values that reach the handlers as tool arguments or as       *)
(* fields of a remote response: t is the type tag, v the text of a string  *)
(* (empty for every other type), n the value of a number (0 otherwise).    *)
(***************************************************************************)
Undefined == [t |-> "undefined", v |-> <<>>, n |-> 0]
Null == [t |-> "null", v |-> <<>>, n |-> 0]
Object == [t |-> "object", v |-> <<>>, n |-> 0]
Num(k) == [t |-> "number", v |-> <<>>, n |-> k]
Str(s) == [t |-> "string", v |-> s, n |-> 0]

\* ToBoolean: undefined, null, "" and 0 are falsy.
truthy(x) ==
  CASE x.t = "undefined" -> FALSE
    [] x.t = "null" -> FALSE
    [] x.t = "string" -> x.v # <<>>
    [] x.t = "number" -> x.n # 0
    [] OTHER -> TRUE

(***************************************************************************)
(* Buffer.toString("utf-8"): bytes to code points.  A malformed or         *)
(* truncated sequence yields U+FFFD (65533) for its maximal valid prefix   *)
(* and decoding resumes at the byte that broke it.                         *)
(***************************************************************************)
\* Number of continuation bytes the lead byte b announces, -1 for a byte
\* that cannot start a sequence (0x80..0xC1, 0xF5..0xFF).
utf8Needed(b) ==
  IF b < 128 THEN 0
  ELSE IF b >= 194 /\ b <= 223 THEN 1
  ELSE IF b >= 224 /\ b <= 239 THEN 2
  ELSE IF b >= 240 /\ b <= 244 THEN 3
  ELSE -1

\* Range allowed for the first continuation byte after lead byte b
\* (0xE0 -> A0.., 0xF0 -> 90.., 0xED -> ..9F, 0xF4 -> ..8F).
utf8Lower(b) == IF b = 224 THEN 160 ELSE IF b = 240 THEN 144 ELSE 128
utf8Upper(b) == IF b = 237 THEN 159 ELSE IF b = 244 THEN 143 ELSE 191

\* How many of the bytes after the lead byte are valid continuations, at
\* most need of them.
utf8Continuations(bytes, need) ==
  LET ok(i) == /\ i + 1 <= Len(bytes)
               /\ bytes[i + 1] >= (IF i = 1 THEN utf8Lower(bytes[1]) ELSE 128)
               /\ bytes[i + 1] <= (IF i = 1 THEN utf8Upper(bytes[1]) ELSE 191)
      good == { k \in 0..need : \A i \in 1..k : ok(i) }
  IN CHOOSE k \in good : \A j \in good : j <= k

RECURSIVE utf8CodePoint(_, _, _)
utf8CodePoint(bytes, i, acc) ==
  IF i > Len(bytes) THEN acc
  ELSE utf8CodePoint(bytes, i + 1, acc * 64 + (bytes[i] - 128))

RECURSIVE utf8Decode(_)
utf8Decode(bytes) ==
  IF bytes = <<>> THEN <<>>
  ELSE LET b == Head(bytes)
           need == utf8Needed(b)
       IN IF need = 0 THEN <<b>> \o utf8Decode(Tail(bytes))
          ELSE IF need = -1 THEN <<65533>> \o utf8Decode(Tail(bytes))
          ELSE LET k == utf8Continuations(bytes, need)
                   lead == IF need = 1 THEN b - 192
                           ELSE IF need = 2 THEN b - 224 ELSE b - 240
               IN IF k = need
                  THEN <<utf8CodePoint(SubSeq(bytes, 1, need + 1), 2, lead)>>
                         \o utf8Decode(SubSeq(bytes, need + 2, Len(bytes)))
                  ELSE <<65533>> \o utf8Decode(SubSeq(bytes, k + 2, Len(bytes)))

(***************************************************************************)
(* Buffer.toString("base64"): bytes to the code points of the base64 text, *)
(* three bytes to four characters, padded with "=" (61).                   *)
(***************************************************************************)
\* The code point of the i-th character of A-Z a-z 0-9 + /
base64Char(i) ==
  IF i < 26 THEN 65 + i
  ELSE IF i < 52 THEN 97 + (i - 26)
  ELSE IF i < 62 THEN 48 + (i - 52)
  ELSE IF i = 62 THEN 43 ELSE 47

RECURSIVE base64Encode(_)
base64Encode(bytes) ==
  IF bytes = <<>> THEN <<>>
  ELSE IF Len(bytes) = 1 THEN
    << base64Char(bytes[1] \div 4), base64Char((bytes[1] % 4) * 16), 61, 61 >>
  ELSE IF Len(bytes) = 2 THEN
    << base64Char(bytes[1] \div 4),
       base64Char((bytes[1] % 4) * 16 + bytes[2] \div 16),
       base64Char((bytes[2] % 16) * 4), 61 >>
  ELSE
    << base64Char(bytes[1] \div 4),
       base64Char((bytes[1] % 4) * 16 + bytes[2] \div 16),
       base64Char((bytes[2] % 16) * 4 + bytes[3] \div 64),
       base64Char(bytes[3] % 64) >>
      \o base64Encode(SubSeq(bytes, 4, Len(bytes)))

(***************************************************************************)
(* MIME types, as token sequences.                                         *)
(***************************************************************************)
NativePrefix == <<"application/", "vnd.google-apps">>
GoogleDocument == NativePrefix \o <<".document">>
GoogleSpreadsheet == NativePrefix \o <<".spreadsheet">>
GooglePresentation == NativePrefix \o <<".presentation">>
GoogleDrawing == NativePrefix \o <<".drawing">>
WordDocument ==
  <<"application/", "vnd.openxmlformats-officedocument", ".wordprocessingml.document">>
TextMarkdown == <<"text/", "markdown">>
TextCsv == <<"text/", "csv">>
TextPlain == <<"text/", "plain">>
ImagePng == <<"image/", "png">>
ApplicationJson == <<"application/", "json">>
OctetStream == <<"application/", "octet-stream">>

\* The switch without its drawing case.
exportMimeTypeNoDrawing(mimeType) ==
  CASE mimeType = GoogleDocument -> TextMarkdown
    [] mimeType = GoogleSpreadsheet -> TextCsv
    [] OTHER -> TextPlain

\* The switch of readFileContent that picks the export format.
exportMimeType(mimeType) ==
  CASE mimeType = GoogleDocument -> TextMarkdown
    [] mimeType = WordDocument -> TextMarkdown
    [] mimeType = GoogleSpreadsheet -> TextCsv
    [] mimeType = GooglePresentation -> TextPlain
    [] mimeType = GoogleDrawing -> ImagePng
    [] OTHER -> TextPlain

\* file.data.mimeType?.startsWith("application/vnd.google-apps")
isNative(mime) == mime.t = "string" /\ startsWith(mime.v, NativePrefix)

\* file.data.mimeType || "application/octet-stream"
downloadMimeType(mime) == IF truthy(mime) THEN mime.v ELSE OctetStream

\* The test without its application/json half.
isTextualTextOnly(mimeType) == startsWith(mimeType, <<"text/">>)

\* mimeType.startsWith("text/") || mimeType === "application/json"
isTextual(mimeType) == startsWith(mimeType, <<"text/">>) \/ mimeType = ApplicationJson

\* The value readFileContent returns on the export path: the body as the
\* HTTP client decoded it for responseType "text".
exportResult(mime, bytes) ==
  [mimeType |-> exportMimeType(mime.v), content |-> utf8Decode(bytes)]

\* The value readFileContent returns on the download path.
downloadResult(mime, bytes) ==
  LET mimeType == downloadMimeType(mime)
  IN IF isTextual(mimeType)
     THEN [mimeType |-> mimeType, content |-> utf8Decode(bytes)]
     ELSE [mimeType |-> mimeType, content |-> base64Encode(bytes)]

(***************************************************************************)
(* The search tool's query and result text.                                *)
(***************************************************************************)
\* The escape without its first replace: backslashes are left alone.
escapeQueryQuotesOnly(userQuery) == replaceAll(userQuery, "'", <<"\\", "'">>)

\* userQuery.replace(/\\/g, "\\\\").replace(/'/g, "\\'")
escapeQuery(userQuery) ==
  replaceAll(replaceAll(userQuery, "\\", <<"\\", "\\">>), "'", <<"\\", "'">>)

\* A filter that also asks for files that are not trashed.
formatQueryNotTrashed(escapedQuery) ==
  <<"fullText contains ", "'">> \o escapedQuery \o <<"'", " and ", "trashed = false">>

\* `fullText contains '${escapedQuery}'`
formatQuery(escapedQuery) == <<"fullText contains ", "'">> \o escapedQuery \o <<"'">>

\* `${file.name} (${file.mimeType}) - ID: ${file.id}`
fileLine(file) == file.name \o <<" (">> \o file.mimeType \o <<")", " - ID: ">> \o file.id

\* res.data.files?.map(...).join("\n"); files is a JavaScript value whose
\* list, when it is an array, is carried in field list.
fileList(files) ==
  IF files.t = "undefined" THEN Undefined
  ELSE Str(join([i \in 1..Len(files.list) |-> fileLine(files.list[i])], <<"\n">>))

\* Interpolation of a value into a template literal.
interpolate(x) ==
  CASE x.t = "undefined" -> <<"undefined">>
    [] x.t = "null" -> <<"null">>
    [] x.t = "number" -> numberToString(x.n)
    [] x.t = "string" -> x.v
    [] OTHER -> <<"[object Object]">>

\* `Found ${res.data.files?.length ?? 0} files:\n${fileList}`
searchText(files) ==
  <<"Found ">>
    \o numberToString(IF files.t = "undefined" THEN 0 ELSE Len(files.list))
    \o <<" files:", "\n">> \o interpolate(fileList(files))

(***************************************************************************)
(* Inputs: what clients send and what the remote API answers.              *)
(***************************************************************************)
QueryChars == {"a", "'", "\\"}
Queries == SeqsUpTo(QueryChars, MaxQueryLen)
QueryValues == {Undefined, Null, Num(5), Object} \cup { Str(q) : q \in Queries }
FileIdValues ==
  {Undefined, Null, Str(<<>>), Num(0), Str(<<"abc123">>), Str(<<"nope">>)}

\* request.params.arguments of a call-tool request; an absent property reads
\* as undefined.
Arguments ==
  { [query |-> q, file_id |-> Undefined] : q \in QueryValues }
    \cup { [query |-> Undefined, file_id |-> f] : f \in FileIdValues }

ToolNames == {"gdrive_search", "gdrive_read_file", "gdrive_auth", "gdrive_delete"}

\* MIME types the metadata of a remote file may carry.
MimeTypes ==
  { GoogleDocument, GoogleSpreadsheet, GooglePresentation, GoogleDrawing,
    NativePrefix \o <<".folder">>, NativePrefix, WordDocument,
    TextPlain, TextCsv, ApplicationJson, ApplicationJson \o <<"l">>,
    ImagePng, <<"application/", "pdf">>, <<"text">> }
MimeValues == {Undefined, Str(<<>>)} \cup { Str(m) : m \in MimeTypes }

\* Bytes of a remote body: NUL, "A", the two bytes of U+00E9, and 0xFF.
ByteValues == {0, 65, 195, 169, 255}
Bodies == SeqsUpTo(ByteValues, MaxBytesLen)

\* const pageSize = 10 of list-resources; the search asks for the same.
pageSize == 10

\* Files a listing may return, with the fields the search asks for.
RemoteFiles ==
  { [id |-> <<"abc123">>, name |-> <<"plan">>, mimeType |-> GoogleDocument,
     modifiedTime |-> <<"2024-05-01T10:00:00.000Z">>, size |-> <<"2048">>],
    [id |-> <<"xyz789">>, name |-> <<"notes.txt">>, mimeType |-> TextPlain,
     modifiedTime |-> <<"2023-01-31T08:30:00.000Z">>, size |-> <<"17">>] }
\* A long listing: k files numbered in the order the remote returns them.
numberedFiles(k) ==
  [i \in 1..k |->
     [id |-> <<"id">> \o numberToString(i), name |-> <<"doc">> \o numberToString(i),
      mimeType |-> TextPlain,
      modifiedTime |-> <<"2024-05-01T10:00:00.000Z">>, size |-> numberToString(i)]]
\* res.data.files: an array, or absent.  The short arrays give every order
\* of the files above; the long ones fill a page and exceed it.
FilesValues ==
  { [t |-> "undefined", list |-> <<>>] }
    \cup { [t |-> "object", list |-> l] : l \in SeqsUpTo(RemoteFiles, MaxFiles) }
    \cup { [t |-> "object", list |-> numberedFiles(k)] : k \in {pageSize, pageSize + 1} }

\* request.params.cursor of a list-resources request, and the page token
\* the remote returns.
CursorValues == {Undefined, Str(<<>>), Str(<<"page2">>)}
PageTokenValues == {Undefined, Str(<<"page3">>)}

\* The literal "gdrive:///".
UriPrefix == <<"gdrive:", "/", "/", "/">>

\* File ids: up to MaxIdParts pieces, each a plain id or the text
\* "gdrive:///" itself.
RECURSIVE flatten(_)
flatten(parts) == IF parts = <<>> THEN <<>> ELSE Head(parts) \o flatten(Tail(parts))
ResourceIds == { flatten(parts) : parts \in SeqsUpTo({<<"abc123">>, UriPrefix}, MaxIdParts) }

\* request.params.uri of a read-resource request: the URIs list-resources
\* builds, and one that lacks the prefix.
Uris == { UriPrefix \o id : id \in ResourceIds } \cup {<<"abc123">>}

\* The id with every "gdrive:///" taken out.
fileIdOfUriGlobal(uri) == removeEvery(uri, UriPrefix)

\* request.params.uri.replace("gdrive:///", "")
fileIdOfUri(uri) == replaceFirst(uri, UriPrefix, <<>>)

\* Errors the remote client library throws.
RemoteErrors ==
  { [name |-> "GaxiosError", code |-> "", message |-> m] :
      m \in { <<"File not found: ", "nope">>, <<"Login Required.">> } }

(***************************************************************************)
(* Errors thrown by the handlers themselves, and the shapes of a response. *)
(***************************************************************************)
NoError == [name |-> "", code |-> "", message |-> <<>>]
TypeError == [name |-> "TypeError", code |-> "", message |-> <<"not a string">>]
InvalidParamsError ==
  [name |-> "McpError", code |-> "InvalidParams", message |-> <<"File ID is required">>]
ToolNotFound == [name |-> "Error", code |-> "", message |-> <<"Tool not found">>]

NoResponse ==
  [kind |-> "none", isError |-> FALSE, text |-> <<>>, tools |-> <<>>, error |-> NoError,
   resources |-> <<>>, nextCursor |-> Undefined, contents |-> <<>>]
\* A tool result: { content: [{ type: "text", text }], isError }
toolResult(text, isError) ==
  [NoResponse EXCEPT !.kind = "result", !.isError = isError, !.text = text]
\* An error that leaves the handler: the protocol server answers it with a
\* JSON-RPC error.
protocolError(err) ==
  [NoResponse EXCEPT !.kind = "error", !.error = err]
toolsResponse(names) ==
  [NoResponse EXCEPT !.kind = "tools", !.tools = names]

NoRequest ==
  [kind |-> "none", name |-> "", arguments |-> [query |-> Undefined, file_id |-> Undefined],
   uri |-> <<>>, cursor |-> Undefined]

\* A call to the remote document API.
listCall(q) ==
  [api |-> "files.list", q |-> q, pageSize |-> 10, fileId |-> Undefined,
   alt |-> "", mimeType |-> <<>>, pageToken |-> Undefined]
\* A metadata call that writes.
updateCall(fileId) ==
  [api |-> "files.update", q |-> <<>>, pageSize |-> 0, fileId |-> fileId,
   alt |-> "", mimeType |-> <<>>, pageToken |-> Undefined]
getCall(fileId) ==
  [api |-> "files.get", q |-> <<>>, pageSize |-> 0, fileId |-> fileId,
   alt |-> "", mimeType |-> <<>>, pageToken |-> Undefined]
mediaCall(fileId) ==
  [api |-> "files.get", q |-> <<>>, pageSize |-> 0, fileId |-> fileId,
   alt |-> "media", mimeType |-> <<>>, pageToken |-> Undefined]
exportCall(fileId, mimeType) ==
  [api |-> "files.export", q |-> <<>>, pageSize |-> 0, fileId |-> fileId,
   alt |-> "", mimeType |-> mimeType, pageToken |-> Undefined]

\* The call list-resources makes.
resourcesCall(pageToken) ==
  [api |-> "files.list", q |-> <<>>, pageSize |-> pageSize, fileId |-> Undefined,
   alt |-> "", mimeType |-> <<>>, pageToken |-> pageToken]

\* Parameters that never carry the cursor.
listResourcesParamsNoToken(cursor) == resourcesCall(Undefined)

\* params of the ListResourcesRequestSchema handler: the page token is set
\* when request.params.cursor is truthy.
listResourcesParams(cursor) ==
  resourcesCall(IF truthy(cursor) THEN cursor ELSE Undefined)

\* A resource descriptor: uri `gdrive:///${file.id}`, mimeType and name.
resource(f) == [uri |-> UriPrefix \o f.id, mimeType |-> f.mimeType, name |-> f.name]

\* { resources, nextCursor }
resourcesResponse(list, token) ==
  [NoResponse EXCEPT !.kind = "resources",
                     !.resources = [i \in 1..Len(list) |-> resource(list[i])],
                     !.nextCursor = token]

\* { contents: [{ uri, mimeType, text }] }
contentsResponse(uri, result) ==
  [NoResponse EXCEPT !.kind = "contents",
                     !.contents = <<[uri |-> uri, mimeType |-> result.mimeType,
                                     text |-> result.content]>>]

\* What authenticate rejects with.
AuthenticateError == [name |-> "Error", code |-> "", message |-> <<"ENOENT">>]

\* files.map on a files value that is not an array.
MapTypeError ==
  [name |-> "TypeError", code |-> "", message |-> <<"Cannot read properties of undefined">>]

\* A list that advertises gdrive_auth in both builds.
listToolsWithAuth(b) == <<"gdrive_search", "gdrive_read_file", "gdrive_auth">>

\* The tools list-tools advertises in each build.
listTools(b) ==
  IF b = "stdio" THEN <<"gdrive_search", "gdrive_read_file", "gdrive_auth">>
  ELSE <<"gdrive_search", "gdrive_read_file">>

(***************************************************************************)
(* State.                                                                  *)
(***************************************************************************)
VARIABLES
  build,        \* "http": src/index.ts; "stdio": src/unnamed/part_000
  phase,        \* "starting", "running" or "exited"
  credentials,  \* TRUE when the credential file exists
  auth,         \* TRUE when google.options carries an authenticated client
  console,      \* what start-up has logged
  pc,           \* where the request in progress is suspended
  request,      \* the request in progress, or the last one handled
  calls,        \* remote calls this request has issued, in order
  files,        \* res.data.files of the resolved drive.files.list
  nextPageToken, \* res.data.nextPageToken of the resolved drive.files.list
  thrown,       \* the error a remote call rejected with, if one did
  file,         \* readFileContent: file.data.mimeType of the metadata
  body,         \* the bytes the remote returned for the content call
  readResult,   \* what readFileContent returned
  response,     \* how the request ended
  parked,       \* a second handler invocation, suspended while this one runs
  transports,   \* setupHttpServer: the transports map, session id to transport
  pool,         \* every transport setupHttpServer has constructed, in order
  exchange      \* the HTTP request being answered

vars == <<build, phase, credentials, auth, console, pc, request, calls, files,
          nextPageToken, thrown, file, body, readResult, response, parked,
          transports, pool, exchange>>

httpVars == <<transports, pool, exchange>>
handlerVars == <<pc, request, calls, files, nextPageToken, thrown, file, body,
                 readResult, response, parked>>

processVars == <<build, phase, credentials, auth, console>>
readVars == <<file, body, readResult>>

NoReadResult == [mimeType |-> <<>>, content |-> <<>>]
NoFiles == [t |-> "none", list |-> <<>>]

\* No HTTP request is being answered.
NoExchange ==
  [endpoint |-> "", method |-> "", sessionId |-> Undefined, body |-> "",
   status |-> 0, transport |-> 0, created |-> FALSE]

\* A handler invocation that has not started.
NoHandler ==
  [pc |-> "idle", request |-> NoRequest, calls |-> <<>>, files |-> NoFiles,
   nextPageToken |-> Undefined, thrown |-> NoError, file |-> Undefined,
   body |-> <<>>, readResult |-> NoReadResult, response |-> NoResponse]

\* A new request starts with nothing awaited and nothing returned.
freshLocals ==
  /\ files' = NoFiles
  /\ nextPageToken' = Undefined
  /\ thrown' = NoError
  /\ file' = Undefined
  /\ body' = <<>>
  /\ readResult' = NoReadResult

Init ==
  /\ build \in {"http", "stdio"}
  /\ phase = "starting"
  /\ credentials \in BOOLEAN
  /\ auth = FALSE
  /\ console = {}
  /\ pc = "idle"
  /\ request = NoRequest
  /\ calls = <<>>
  /\ files = NoFiles
  /\ nextPageToken = Undefined
  /\ thrown = NoError
  /\ file = Undefined
  /\ body = <<>>
  /\ readResult = NoReadResult
  /\ response = NoResponse
  /\ parked = NoHandler
  /\ transports = {}
  /\ pool = <<>>
  /\ exchange = NoExchange

\* A startup that exits without a credential file in either build.
LoadCredentialsOrExit ==
  /\ phase = "starting"
  /\ IF ~credentials
     THEN /\ console' = console \cup {"error: Credentials not found"}
          /\ phase' = "exited"
          /\ auth' = auth
     ELSE /\ auth' = TRUE
          /\ phase' = "running"
          /\ console' = console
  /\ UNCHANGED <<parked, httpVars, build, credentials, pc, request, calls, files, nextPageToken, thrown, readVars,
                 response>>

\* loadCredentialsAndRunServer
LoadCredentialsAndRunServer ==
  /\ phase = "starting"
  /\ IF build = "http"
     THEN IF ~credentials
          THEN /\ console' = console \cup {"error: Credentials not found"}
               /\ phase' = "exited"
               /\ auth' = auth
          ELSE /\ auth' = TRUE
               /\ phase' = "running"
               /\ console' = console
     ELSE /\ console' = IF ~credentials
                        THEN console \cup {"warn: Credentials not found"}
                        ELSE console
          /\ auth' = credentials
          /\ phase' = "running"
  /\ UNCHANGED <<parked, httpVars, build, credentials, pc, request, calls, files, nextPageToken, thrown, readVars,
                 response>>

\* A handler may start when the server runs and no request is in progress.
Ready == phase = "running" /\ pc = "idle"

\* The ListToolsRequestSchema handler.
ListTools ==
  /\ Ready
  /\ request' = [NoRequest EXCEPT !.kind = "list-tools"]
  /\ response' = toolsResponse(listTools(build))
  /\ pc' = "done"
  /\ calls' = <<>>
  /\ freshLocals
  /\ UNCHANGED <<processVars, parked, httpVars>>

\* The ListResourcesRequestSchema handler, up to its await of
\* drive.files.list.
ListResources(cursor) ==
  /\ Ready
  /\ request' = [NoRequest EXCEPT !.kind = "list-resources", !.cursor = cursor]
  /\ calls' = <<listResourcesParams(cursor)>>
  /\ response' = NoResponse
  /\ pc' = "resources"
  /\ freshLocals
  /\ UNCHANGED <<processVars, parked, httpVars>>

\* drive.files.list resolves: the rest of the list-resources handler.
ResourcesReturn(res, token) ==
  /\ pc = "resources"
  /\ auth
  /\ Len(res.list) <= calls[1].pageSize
  /\ files' = res
  /\ nextPageToken' = token
  /\ response' = IF res.t = "undefined" THEN protocolError(MapTypeError)
                 ELSE resourcesResponse(res.list, token)
  /\ pc' = "done"
  /\ UNCHANGED <<processVars, parked, httpVars, request, calls, thrown, readVars>>

\* drive.files.list rejects: the rejection leaves the handler.
ResourcesThrows(err) ==
  /\ pc = "resources"
  /\ thrown' = err
  /\ response' = protocolError(err)
  /\ pc' = "done"
  /\ UNCHANGED <<processVars, parked, httpVars, request, calls, files, nextPageToken, readVars>>

\* The ReadResourceRequestSchema handler, up to the first await of
\* readFileContent.
ReadResource(uri) ==
  /\ Ready
  /\ request' = [NoRequest EXCEPT !.kind = "read-resource", !.uri = uri]
  /\ calls' = <<getCall(Str(fileIdOfUri(uri)))>>
  /\ response' = NoResponse
  /\ pc' = "metadata"
  /\ freshLocals
  /\ UNCHANGED <<processVars, parked, httpVars>>

\* The gdrive_search branch up to its await of drive.files.list.
searchStart(arguments) ==
  LET userQuery == arguments.query
  IN IF userQuery.t # "string"
     THEN \* userQuery.replace is not callable: a TypeError leaves the handler
          /\ response' = protocolError(TypeError)
          /\ calls' = <<>>
          /\ pc' = "done"
     ELSE /\ calls' = <<listCall(formatQuery(escapeQuery(userQuery.v)))>>
          /\ response' = NoResponse
          /\ pc' = "list"

\* The branch without its check of fileId.
readFileStartUnchecked(arguments) ==
  /\ calls' = <<getCall(arguments.file_id)>>
  /\ response' = NoResponse
  /\ pc' = "metadata"

\* The gdrive_read_file branch up to the first await of readFileContent.
readFileStart(arguments) ==
  LET fileId == arguments.file_id
  IN IF ~truthy(fileId)
     THEN /\ response' = protocolError(InvalidParamsError)
          /\ calls' = <<>>
          /\ pc' = "done"
     ELSE /\ calls' = <<getCall(fileId)>>
          /\ response' = NoResponse
          /\ pc' = "metadata"

\* The CallToolRequestSchema handler, up to its first await.
CallTool(name, arguments) ==
  /\ Ready
  /\ request' = [NoRequest EXCEPT !.kind = "call-tool", !.name = name,
                                   !.arguments = arguments]
  /\ freshLocals
  /\ IF name = "gdrive_search" THEN searchStart(arguments)
     ELSE IF name = "gdrive_read_file" THEN readFileStart(arguments)
     ELSE IF name = "gdrive_auth" /\ build = "stdio"
     THEN /\ calls' = <<>>
          /\ response' = NoResponse
          /\ pc' = "authenticate"
     ELSE /\ response' = protocolError(ToolNotFound)
          /\ calls' = <<>>
          /\ pc' = "done"
  /\ UNCHANGED <<processVars, parked, httpVars>>

\* drive.files.list resolves: the rest of the gdrive_search branch.
\* The remote returns at most pageSize files.
ListReturns(res) ==
  /\ pc = "list"
  /\ auth
  /\ Len(res.list) <= calls[1].pageSize
  /\ files' = res
  /\ response' = toolResult(searchText(res), FALSE)
  /\ pc' = "done"
  /\ UNCHANGED <<processVars, parked, httpVars, request, calls, nextPageToken, thrown, readVars>>

\* A search branch that catches the rejection and answers with a result.
ListThrowsCaught(err) ==
  /\ pc = "list"
  /\ thrown' = err
  /\ response' = toolResult(<<"Error searching: ">> \o err.message, TRUE)
  /\ pc' = "done"
  /\ UNCHANGED <<processVars, parked, httpVars, request, calls, files, nextPageToken, readVars>>

\* drive.files.list rejects: nothing in the gdrive_search branch catches it.
ListThrows(err) ==
  /\ pc = "list"
  /\ thrown' = err
  /\ response' = protocolError(err)
  /\ pc' = "done"
  /\ UNCHANGED <<processVars, parked, httpVars, request, calls, files, nextPageToken, readVars>>

\* A gdrive_read_file branch without its catch.
readFailedUncaught(err) ==
  /\ thrown' = err
  /\ response' = protocolError(err)
  /\ pc' = "done"

\* How a rejected readFileContent leaves its caller: gdrive_read_file
\* catches it and answers with an isError result; the read-resource handler
\* has no catch.
readFailed(err) ==
  /\ thrown' = err
  /\ response' = IF request.kind = "read-resource" THEN protocolError(err)
                 ELSE toolResult(<<"Error reading file: ">> \o err.message, TRUE)
  /\ pc' = "done"

\* How a resolved readFileContent leaves its caller.
readSucceeded(result) ==
  /\ readResult' = result
  /\ response' = IF request.kind = "read-resource"
                 THEN contentsResponse(request.uri, result)
                 ELSE toolResult(result.content, FALSE)
  /\ pc' = "done"

\* readFileContent: the metadata get resolves, and the export or the
\* download is issued.
GetReturns(mimeType) ==
  /\ pc = "metadata"
  /\ auth
  /\ file' = mimeType
  /\ IF isNative(mimeType)
     THEN /\ calls' = Append(calls, exportCall(calls[1].fileId, exportMimeType(mimeType.v)))
          /\ pc' = "export"
     ELSE /\ calls' = Append(calls, mediaCall(calls[1].fileId))
          /\ pc' = "download"
  /\ UNCHANGED <<processVars, parked, httpVars, request, files, nextPageToken, thrown, body, readResult, response>>

\* A metadata get that is tried a second time before the read fails.
GetThrowsRetry(err) ==
  /\ pc = "metadata"
  /\ IF Len(calls) = 1
     THEN /\ calls' = Append(calls, calls[1])
          /\ UNCHANGED <<pc, thrown, response>>
     ELSE /\ readFailed(err)
          /\ calls' = calls
  /\ UNCHANGED <<processVars, parked, httpVars, request, files, nextPageToken, readVars>>

\* readFileContent: the metadata get rejects.
GetThrows(err) ==
  /\ pc = "metadata"
  /\ readFailed(err)
  /\ UNCHANGED <<processVars, parked, httpVars, request, calls, files, nextPageToken, readVars>>

\* readFileContent: drive.files.export resolves.
ExportReturns(bytes) ==
  /\ pc = "export"
  /\ auth
  /\ body' = bytes
  /\ readSucceeded(exportResult(file, bytes))
  /\ UNCHANGED <<processVars, parked, httpVars, request, calls, files, nextPageToken, thrown, file>>

ExportThrows(err) ==
  /\ pc = "export"
  /\ readFailed(err)
  /\ UNCHANGED <<processVars, parked, httpVars, request, calls, files, nextPageToken, readVars>>

\* readFileContent: the media download resolves.
DownloadReturns(bytes) ==
  /\ pc = "download"
  /\ auth
  /\ body' = bytes
  /\ readSucceeded(downloadResult(file, bytes))
  /\ UNCHANGED <<processVars, parked, httpVars, request, calls, files, nextPageToken, thrown, file>>

DownloadThrows(err) ==
  /\ pc = "download"
  /\ readFailed(err)
  /\ UNCHANGED <<processVars, parked, httpVars, request, calls, files, nextPageToken, readVars>>

\* A gdrive_auth branch that also installs the new credentials as the
\* process-wide client.
AuthenticateReturnsSetsAuth ==
  /\ pc = "authenticate"
  /\ credentials' = TRUE
  /\ auth' = TRUE
  /\ response' = toolResult(<<"Credentials generated and saved successfully.">>, FALSE)
  /\ pc' = "done"
  /\ UNCHANGED <<parked, httpVars, build, phase, console, request, calls, files, nextPageToken, thrown, readVars>>

\* authenticateAndSaveCredentials resolves inside the gdrive_auth branch:
\* the credentials are written to the credential file.
AuthenticateReturns ==
  /\ pc = "authenticate"
  /\ credentials' = TRUE
  /\ response' = toolResult(<<"Credentials generated and saved successfully.">>, FALSE)
  /\ pc' = "done"
  /\ UNCHANGED <<parked, httpVars, build, phase, auth, console, request, calls, files, nextPageToken, thrown, readVars>>

\* authenticate rejects (no key file, consent refused).
AuthenticateThrows ==
  /\ pc = "authenticate"
  /\ thrown' = AuthenticateError
  /\ response' = protocolError(AuthenticateError)
  /\ pc' = "done"
  /\ UNCHANGED <<processVars, parked, httpVars, request, calls, files, nextPageToken, readVars>>

\* The protocol server sends the handler's outcome to the client; the
\* handler's locals are gone.
Respond ==
  /\ pc = "done"
  /\ pc' = "idle"
  /\ request' = NoRequest
  /\ calls' = <<>>
  /\ response' = NoResponse
  /\ freshLocals
  /\ UNCHANGED <<processVars, parked, httpVars>>

Next ==
  \/ LoadCredentialsAndRunServer
  \/ ListTools
  \/ \E cursor \in CursorValues : ListResources(cursor)
  \/ \E uri \in Uris : ReadResource(uri)
  \/ \E res \in FilesValues, token \in PageTokenValues : ResourcesReturn(res, token)
  \/ \E err \in RemoteErrors : ResourcesThrows(err)
  \/ \E name \in ToolNames, arguments \in Arguments : CallTool(name, arguments)
  \/ \E res \in FilesValues : ListReturns(res)
  \/ \E err \in RemoteErrors : ListThrows(err)
  \/ \E mimeType \in MimeValues : GetReturns(mimeType)
  \/ \E err \in RemoteErrors : GetThrows(err)
  \/ \E bytes \in Bodies : ExportReturns(bytes)
  \/ \E err \in RemoteErrors : ExportThrows(err)
  \/ \E bytes \in Bodies : DownloadReturns(bytes)
  \/ \E err \in RemoteErrors : DownloadThrows(err)
  \/ AuthenticateReturns
  \/ AuthenticateThrows
  \/ Respond

Spec == Init /\ [][Next]_vars

(***************************************************************************)
(* Two requests in progress at once.  The event loop runs one handler at a *)
(* time and changes handler only where the running one awaits a remote     *)
(* call or has returned.                                                   *)
(***************************************************************************)
\* The handler invocation that is running.
handler ==
  [pc |-> pc, request |-> request, calls |-> calls, files |-> files,
   nextPageToken |-> nextPageToken, thrown |-> thrown, file |-> file,
   body |-> body, readResult |-> readResult, response |-> response]

\* The event loop turns to the other invocation.
Switch ==
  /\ phase = "running"
  /\ parked # handler
  /\ parked' = handler
  /\ pc' = parked.pc
  /\ request' = parked.request
  /\ calls' = parked.calls
  /\ files' = parked.files
  /\ nextPageToken' = parked.nextPageToken
  /\ thrown' = parked.thrown
  /\ file' = parked.file
  /\ body' = parked.body
  /\ readResult' = parked.readResult
  /\ response' = parked.response
  /\ UNCHANGED <<processVars, httpVars>>

\* Requests and remote answers of the two-request specification.
ConcurrentTools == {"gdrive_search", "gdrive_read_file", "gdrive_auth"}
ConcurrentArguments ==
  { [query |-> Str(<<"a">>), file_id |-> Undefined],
    [query |-> Undefined, file_id |-> Str(<<"abc123">>)] }
ConcurrentCursors == {Undefined, Str(<<"page2">>)}
ConcurrentUris == {UriPrefix \o <<"abc123">>}
ConcurrentFiles == { f \in FilesValues : Len(f.list) <= 1 }
ConcurrentMimes == {Str(GoogleDocument), Str(TextPlain)}
ConcurrentBodies == { b \in Bodies : Len(b) <= 1 }

NextConcurrent ==
  \/ LoadCredentialsAndRunServer
  \/ ListTools
  \/ \E cursor \in ConcurrentCursors : ListResources(cursor)
  \/ \E uri \in ConcurrentUris : ReadResource(uri)
  \/ \E res \in ConcurrentFiles, token \in PageTokenValues : ResourcesReturn(res, token)
  \/ \E err \in RemoteErrors : ResourcesThrows(err)
  \/ \E name \in ConcurrentTools, arguments \in ConcurrentArguments :
       CallTool(name, arguments)
  \/ \E res \in ConcurrentFiles : ListReturns(res)
  \/ \E err \in RemoteErrors : ListThrows(err)
  \/ \E mimeType \in ConcurrentMimes : GetReturns(mimeType)
  \/ \E err \in RemoteErrors : GetThrows(err)
  \/ \E bytes \in ConcurrentBodies : ExportReturns(bytes)
  \/ \E err \in RemoteErrors : ExportThrows(err)
  \/ \E bytes \in ConcurrentBodies : DownloadReturns(bytes)
  \/ \E err \in RemoteErrors : DownloadThrows(err)
  \/ AuthenticateReturns
  \/ AuthenticateThrows
  \/ Respond
  \/ Switch

SpecConcurrent == Init /\ [][NextConcurrent]_vars

(***************************************************************************)
(* setupHttpServer: the /mcp, /sse and /messages endpoints and the map of  *)
(* transports by session id.  The HTTP handlers act when the src/index.ts  *)
(* build runs.  A transport is named by its place in pool.                 *)
(***************************************************************************)
\* randomUUID(): a value no earlier call returned; the t-th transport
\* constructed gets the t-th one.
sessionIdOf(t) == <<"session-">> \o numberToString(t)

\* Property names every object literal inherits.
ObjectPrototypeNames == {<<"constructor">>}

\* The mcp-session-id header, or the sessionId query parameter: absent,
\* empty, an inherited property name, or an id (issued or not).
SessionIdValues ==
  {Undefined, Str(<<>>), Str(<<"constructor">>)}
    \cup { Str(sessionIdOf(t)) : t \in 1..MaxTransports }

Methods == {"GET", "POST", "DELETE"}

\* req.body, by the JSON-RPC method it carries; "" is no body.
HttpBodies == {"initialize", "tools/call", ""}
\* A test that takes every POST body for an initialize request.
isInitializeRequestAny(b) == TRUE
isInitializeRequest(b) == b = "initialize"

\* transports[sid] = transport
put(T, sid, t) ==
  { e \in T : e.sessionId # sid } \cup {[sessionId |-> sid, transport |-> t]}

\* delete transports[sid]
remove(T, sid) == { e \in T : e.sessionId # sid }

\* transports[sessionId]: a transport's place in pool, -1 for an inherited
\* property that is no transport, 0 for undefined.
transportsAt(T, sessionId) ==
  IF sessionId.t # "string" THEN 0
  ELSE IF \E e \in T : e.sessionId = sessionId.v
       THEN (CHOOSE e \in T : e.sessionId = sessionId.v).transport
       ELSE IF sessionId.v \in ObjectPrototypeNames THEN -1 ELSE 0

\* The instanceof test without the class check: any map entry passes.
isAnyTransport(P, existing, kind) == existing > 0

\* existingTransport instanceof StreamableHTTPServerTransport, or
\* instanceof SSEServerTransport.
isInstanceOf(P, existing, kind) == existing > 0 /\ P[existing].kind = kind

\* onsessioninitialized of a new Streamable HTTP transport.
onsessioninitialized(T, P, t, sid) ==
  IF P[t].sessionId # <<>> THEN put(T, sid, t) ELSE T

\* An onclose handler that leaves the map as it is.
oncloseKeepsEntry(T, P, t) == T

\* transport.onclose of a Streamable HTTP transport.
onclose(T, P, t) ==
  IF P[t].sessionId # <<>> /\ transportsAt(T, Str(P[t].sessionId)) # 0
  THEN remove(T, P[t].sessionId)
  ELSE T

\* transport.handleRequest of a Streamable HTTP transport: an initialize
\* POST gives a new transport its session id and calls
\* onsessioninitialized, and is refused by one that has a session; DELETE
\* closes the transport, which calls onclose; a request the transport does
\* not accept (its Accept or Content-Type header) is answered 406.
handleRequest(T, P, t, method, b, accepted) ==
  IF method = "POST" /\ isInitializeRequest(b)
  THEN IF P[t].sessionId # <<>> THEN [status |-> 400, pool |-> P, transports |-> T]
       ELSE IF ~accepted THEN [status |-> 406, pool |-> P, transports |-> T]
       ELSE LET P2 == [P EXCEPT ![t].sessionId = sessionIdOf(t)]
            IN [status |-> 200, pool |-> P2,
                transports |-> onsessioninitialized(T, P2, t, sessionIdOf(t))]
  ELSE IF method = "DELETE"
  THEN [status |-> 200, pool |-> [P EXCEPT ![t].closed = TRUE],
        transports |-> onclose(T, P, t)]
  ELSE [status |-> IF accepted THEN 200 ELSE 406, pool |-> P, transports |-> T]

httpReady == phase = "running" /\ build = "http" /\ exchange = NoExchange

\* app.all('/mcp')
McpRequest(method, sessionId, b, accepted) ==
  LET existing == transportsAt(transports, sessionId)
      reuse == truthy(sessionId) /\ existing # 0
      create == ~reuse /\ ~truthy(sessionId) /\ method = "POST" /\ isInitializeRequest(b)
      P1 == IF create
            THEN Append(pool, [kind |-> "streamable", sessionId |-> <<>>, closed |-> FALSE])
            ELSE pool
      transport == IF create THEN Len(P1)
                   ELSE IF reuse /\ isInstanceOf(pool, existing, "streamable") THEN existing
                   ELSE 0
      handled == handleRequest(transports, P1, transport, method, b, accepted)
  IN /\ httpReady
     /\ create => Len(pool) < MaxTransports
     /\ IF transport # 0
        THEN /\ pool' = handled.pool
             /\ transports' = handled.transports
             /\ exchange' = [endpoint |-> "/mcp", method |-> method, sessionId |-> sessionId,
                             body |-> b, status |-> handled.status,
                             transport |-> transport, created |-> create]
        ELSE /\ exchange' = [endpoint |-> "/mcp", method |-> method, sessionId |-> sessionId,
                             body |-> b, status |-> 400, transport |-> 0, created |-> FALSE]
             /\ UNCHANGED <<pool, transports>>
     /\ UNCHANGED <<processVars, handlerVars>>

\* app.get('/sse')
SseOpen ==
  LET t == Len(pool) + 1
  IN /\ httpReady
     /\ Len(pool) < MaxTransports
     /\ pool' = Append(pool, [kind |-> "sse", sessionId |-> sessionIdOf(t), closed |-> FALSE])
     /\ transports' = put(transports, sessionIdOf(t), t)
     /\ exchange' = [endpoint |-> "/sse", method |-> "GET", sessionId |-> Undefined,
                     body |-> "", status |-> 200, transport |-> t, created |-> TRUE]
     /\ UNCHANGED <<processVars, handlerVars>>

\* app.post('/messages')
MessagesPost(sessionId, b) ==
  LET existing == transportsAt(transports, sessionId)
      transport == IF truthy(sessionId) /\ isInstanceOf(pool, existing, "sse")
                   THEN existing ELSE 0
  IN /\ httpReady
     /\ exchange' = [endpoint |-> "/messages", method |-> "POST", sessionId |-> sessionId,
                     body |-> b,
                     status |-> IF transport = 0 THEN 400
                                ELSE IF pool[transport].closed THEN 500 ELSE 202,
                     transport |-> transport, created |-> FALSE]
     /\ UNCHANGED <<processVars, handlerVars, pool, transports>>

\* res.on("close") of an SSE stream: the client went away.
SseConnectionClose(t) ==
  /\ phase = "running"
  /\ t \in 1..Len(pool)
  /\ pool[t].kind = "sse"
  /\ ~pool[t].closed
  /\ transports' = remove(transports, pool[t].sessionId)
  /\ pool' = [pool EXCEPT ![t].closed = TRUE]
  /\ UNCHANGED <<processVars, handlerVars, exchange>>

\* The response of the HTTP request has gone out.
HttpRespond ==
  /\ exchange # NoExchange
  /\ exchange' = NoExchange
  /\ UNCHANGED <<processVars, handlerVars, pool, transports>>

\* process.on('SIGINT'): every transport in the map is closed and deleted,
\* and the process exits.
Sigint ==
  /\ phase = "running"
  /\ build = "http"
  /\ pool' = [t \in 1..Len(pool) |->
                IF \E e \in transports : e.transport = t
                THEN [pool[t] EXCEPT !.closed = TRUE] ELSE pool[t]]
  /\ transports' = {}
  /\ exchange' = NoExchange
  /\ phase' = "exited"
  /\ UNCHANGED <<build, credentials, auth, console, handlerVars>>

NextHttp ==
  \/ LoadCredentialsAndRunServer
  \/ \E method \in Methods, sessionId \in SessionIdValues, b \in HttpBodies,
        accepted \in BOOLEAN : McpRequest(method, sessionId, b, accepted)
  \/ SseOpen
  \/ \E sessionId \in SessionIdValues, b \in HttpBodies : MessagesPost(sessionId, b)
  \/ \E t \in 1..MaxTransports : SseConnectionClose(t)
  \/ HttpRespond
  \/ Sigint

SpecHttp == Init /\ [][NextHttp]_vars

TypeOK ==
  /\ build \in {"http", "stdio"}
  /\ phase \in {"starting", "running", "exited"}
  /\ pc \in {"idle", "resources", "list", "metadata", "export", "download",
             "authenticate", "done"}
  /\ Len(calls) <= 2

(***************************************************************************)
(* Reference definitions used to state the properties.                     *)
(***************************************************************************)
\* The remote query language reads a string literal from the character
\* after its opening quote: a backslash takes the next character with it,
\* and the first quote not taken that way closes the literal.  The index of
\* that quote in s when reading starts at i, 0 when the literal never closes.
RECURSIVE literalClose(_, _)
literalClose(s, i) ==
  IF i > Len(s) THEN 0
  ELSE IF s[i] = "\\" THEN literalClose(s, i + 2)
  ELSE IF s[i] = "'" THEN i
  ELSE literalClose(s, i + 1)

\* The text a literal body stands for: each backslash is dropped and the
\* character after it kept.
RECURSIVE literalValue(_)
literalValue(s) ==
  IF s = <<>> THEN <<>>
  ELSE IF Head(s) = "\\"
       THEN (IF Len(s) >= 2 THEN <<s[2]>> \o literalValue(SubSeq(s, 3, Len(s))) ELSE <<>>)
       ELSE <<Head(s)>> \o literalValue(Tail(s))

\* Character by character: a backslash becomes two, a quote gets a
\* backslash in front, any other character stays.
RECURSIVE escapedCharwise(_)
escapedCharwise(q) ==
  IF q = <<>> THEN <<>>
  ELSE (IF Head(q) = "\\" THEN <<"\\", "\\">>
        ELSE IF Head(q) = "'" THEN <<"\\", "'">>
        ELSE <<Head(q)>>) \o escapedCharwise(Tail(q))

\* sub occurs in text.
contains(text, sub) ==
  \E i \in 0..(Len(text) - Len(sub)) : SubSeq(text, i + 1, i + Len(sub)) = sub

\* The files of a drive, as far as a filter can tell them apart: the name,
\* the text the remote indexes, and whether the file is in the trash.
IndexedTexts == SeqsUpTo(QueryChars, MaxTextLen)
DriveFiles == [name : IndexedTexts, fullText : IndexedTexts, trashed : BOOLEAN]

\* The remote query language, as far as the filters here use it: terms
\* "<field> contains '<literal>'" and "trashed = false", parentheses, and
\* the connectives " and " and " or " applied left to right.  Each operator
\* reads q from token i for file f and gives the value and the index after
\* what it read.
RECURSIVE filterTerm(_, _, _), filterRest(_, _, _, _)
filterExpr(q, i, f) ==
  LET t == filterTerm(q, i, f) IN filterRest(q, t.next, f, t.val)

filterTerm(q, i, f) ==
  IF i > Len(q) THEN [val |-> FALSE, next |-> i]
  ELSE IF q[i] = "(" THEN
    LET e == filterExpr(q, i + 1, f) IN [val |-> e.val, next |-> e.next + 1]
  ELSE IF q[i] = "trashed = false" THEN [val |-> ~f.trashed, next |-> i + 1]
  ELSE IF q[i] \in {"fullText contains ", "name contains "} THEN
    LET close == literalClose(q, i + 2)
        text == IF q[i] = "name contains " THEN f.name ELSE f.fullText
    IN IF close = 0 THEN [val |-> FALSE, next |-> Len(q) + 1]
       ELSE [val |-> contains(text, literalValue(SubSeq(q, i + 2, close - 1))),
             next |-> close + 1]
  ELSE [val |-> FALSE, next |-> Len(q) + 1]

filterRest(q, i, f, acc) ==
  IF i <= Len(q) /\ q[i] = " and "
  THEN LET t == filterTerm(q, i + 1, f) IN filterRest(q, t.next, f, acc /\ t.val)
  ELSE IF i <= Len(q) /\ q[i] = " or "
  THEN LET t == filterTerm(q, i + 1, f) IN filterRest(q, t.next, f, acc \/ t.val)
  ELSE [val |-> acc, next |-> i]

\* File f passes filter q.
filterMatches(q, f) == filterExpr(q, 1, f).val

\* Base64 decoding, RFC 4648: the value of a character, -1 for a character
\* outside the alphabet.
base64Value(c) ==
  IF c >= 65 /\ c <= 90 THEN c - 65
  ELSE IF c >= 97 /\ c <= 122 THEN c - 71
  ELSE IF c >= 48 /\ c <= 57 THEN c + 4
  ELSE IF c = 43 THEN 62
  ELSE IF c = 47 THEN 63
  ELSE -1

\* text is well-formed padded base64.
base64Valid(text) ==
  /\ Len(text) % 4 = 0
  /\ \A i \in 1..Len(text) :
       \/ base64Value(text[i]) >= 0
       \/ /\ text[i] = 61
          /\ i >= Len(text) - 1
          /\ (i = Len(text) - 1 => text[Len(text)] = 61)
  /\ Len(text) > 0 =>
       LET n == Len(text)
       IN /\ (text[n] = 61 /\ text[n - 1] # 61) => base64Value(text[n - 1]) % 4 = 0
          /\ (text[n - 1] = 61) => base64Value(text[n - 2]) % 16 = 0

RECURSIVE base64Decode(_)
base64Decode(text) ==
  IF Len(text) < 4 THEN <<>>
  ELSE LET a == base64Value(text[1])
           b == base64Value(text[2])
           c == base64Value(text[3])
           d == base64Value(text[4])
           rest == base64Decode(SubSeq(text, 5, Len(text)))
       IN IF text[3] = 61 THEN << a * 4 + b \div 16 >> \o rest
          ELSE IF text[4] = 61
          THEN << a * 4 + b \div 16, (b % 16) * 16 + c \div 4 >> \o rest
          ELSE << a * 4 + b \div 16, (b % 16) * 16 + c \div 4, (c % 4) * 64 + d >>
                 \o rest

\* A code point that a well-formed text may hold: a Unicode scalar value.
scalarValue(cp) == cp >= 0 /\ cp <= 1114111 /\ ~(cp >= 55296 /\ cp <= 57343)

\* The request in hand is a call of the named tool.
calling(name) == request.kind = "call-tool" /\ request.name = name

\* readFileContent has returned to its caller.
readReturned == pc = "done" /\ readResult # NoReadResult

(***************************************************************************)
(* Properties.                                                             *)
(***************************************************************************)
\* The MIME types whose payload the contract says is text.
textualType(m) == (m # <<>> /\ m[1] = "text/") \/ m = <<"application/", "json">>

\* The export table of the contract.
nativeExport(m) ==
  IF m = <<"application/", "vnd.google-apps", ".document">> THEN <<"text/", "markdown">>
  ELSE IF m = <<"application/", "vnd.google-apps", ".spreadsheet">> THEN <<"text/", "csv">>
  ELSE IF m = <<"application/", "vnd.google-apps", ".presentation">> THEN <<"text/", "plain">>
  ELSE IF m = <<"application/", "vnd.google-apps", ".drawing">> THEN <<"image/", "png">>
  ELSE <<"text/", "plain">>

\* C1: the filter the search tool sends embeds the query with each backslash
\* doubled and each single quote prefixed by a backslash; read as a string
\* literal of the remote query language, it is closed by the final quote
\* only and stands for exactly the query.
C1_QueryEscaped ==
  \A i \in 1..Len(calls) :
    (calling("gdrive_search") /\ calls[i].api = "files.list") =>
      LET Q == request.arguments.query.v
          q == calls[i].q
      IN /\ q = <<"fullText contains ", "'">> \o escapedCharwise(Q) \o <<"'">>
         /\ literalClose(q, 3) = Len(q)
         /\ literalValue(SubSeq(q, 3, Len(q) - 1)) = Q

C1_Witness ==
  /\ calling("gdrive_search")
  /\ pc = "list"
  /\ request.arguments.query.v = <<"'", "\\", "a">>
  /\ calls[1].q = <<"fullText contains ", "'", "\\", "'", "\\", "\\", "a", "'">>

\* C2: a file whose metadata MIME type is Workspace-native is read by an
\* export in the mapped type, and the content returned is tagged with the
\* mapped type, never with a native type.
C2_NativeExported ==
  (calling("gdrive_read_file") /\ isNative(file)) =>
    /\ Len(calls) = 2
    /\ calls[2].api = "files.export"
    /\ calls[2].mimeType = nativeExport(file.v)
    /\ readReturned =>
         /\ readResult.mimeType = nativeExport(file.v)
         /\ readResult.mimeType # file.v
         /\ ~startsWith(readResult.mimeType, <<"application/", "vnd.google-apps">>)

C2_Witness ==
  /\ calling("gdrive_read_file")
  /\ readReturned
  /\ file = Str(GoogleDrawing)
  /\ calls[2].api = "files.export"
  /\ readResult.mimeType = ImagePng

\* C3: in every content result, a MIME type that starts with "text/" or is
\* "application/json" comes with UTF-8 text, and every other MIME type with
\* the base64 encoding of the bytes.
C3_EncodingByMimeType ==
  (calling("gdrive_read_file") /\ readReturned) =>
    IF textualType(readResult.mimeType)
    THEN readResult.content = utf8Decode(body)
    ELSE base64Valid(readResult.content) /\ base64Decode(readResult.content) = body

\* C4: a file that is not Workspace-native is downloaded; with a MIME type
\* that starts with "text/" or is "application/json" the bytes come back
\* decoded as UTF-8, otherwise (a missing MIME type counting as
\* "application/octet-stream") as base64 that decodes to the same bytes.
C4_DownloadEncoding ==
  (calling("gdrive_read_file") /\ readReturned /\ ~isNative(file)) =>
    LET m == readResult.mimeType
        content == readResult.content
    IN /\ calls[2].api = "files.get" /\ calls[2].alt = "media"
       /\ m = IF file.t = "string" /\ file.v # <<>>
              THEN file.v ELSE <<"application/", "octet-stream">>
       /\ IF textualType(m)
          THEN /\ content = utf8Decode(body)
               /\ \A i \in 1..Len(content) : scalarValue(content[i])
          ELSE /\ base64Valid(content)
               /\ base64Decode(content) = body

C4_Witness ==
  /\ calling("gdrive_read_file")
  /\ readReturned
  /\ file = Undefined
  /\ body = <<0, 255>>
  /\ readResult = [mimeType |-> OctetStream, content |-> <<65, 80, 56, 61>>]

\* C5: when readFileContent fails inside gdrive_read_file, the handler
\* returns a tool result with isError true and the text "Error reading
\* file: " followed by the failure message; once readFileContent has been
\* entered the call never ends in a protocol-level error.
C5_ReadFailureIsToolError ==
  /\ (calling("gdrive_read_file") /\ thrown # NoError) =>
       /\ pc = "done"
       /\ response = toolResult(<<"Error reading file: ">> \o thrown.message, TRUE)
  /\ (calling("gdrive_read_file") /\ calls # <<>>) => response.kind # "error"

C5_Witness ==
  /\ calling("gdrive_read_file")
  /\ request.arguments.file_id = Str(<<"nope">>)
  /\ Len(calls) = 1
  /\ response.isError
  /\ response.text = <<"Error reading file: ", "File not found: ", "nope">>

\* C6: a search whose query argument is not a string ends in an
\* invalid-params protocol-level error, without any remote call.
C6_NonStringQueryInvalidParams ==
  (calling("gdrive_search") /\ request.arguments.query.t # "string") =>
    /\ pc = "done"
    /\ calls = <<>>
    /\ response.kind = "error"
    /\ response.error.code = "InvalidParams"

\* C7: a read_file call whose file_id is absent or empty ends in an
\* invalid-params protocol-level error, never in a tool result, and issues
\* no remote call.
C7_MissingFileIdInvalidParams ==
  (/\ calling("gdrive_read_file")
   /\ request.arguments.file_id \in {Undefined, Str(<<>>)}) =>
    /\ pc = "done"
    /\ calls = <<>>
    /\ response.kind = "error"
    /\ response.error.name = "McpError"
    /\ response.error.code = "InvalidParams"

C7_Witness ==
  /\ calling("gdrive_read_file")
  /\ request.arguments.file_id = Str(<<>>)
  /\ response.error.code = "InvalidParams"
  /\ calls = <<>>

\* C8: a search for which the remote returns no files, as an empty files
\* array or as no files field, answers with a success result whose text is
\* "Found 0 files:" and an empty list.
C8_ZeroFiles ==
  (calling("gdrive_search") /\ pc = "done" /\ files # NoFiles /\ files.list = <<>>) =>
    response = toolResult(<<"Found ", "0", " files:", "\n">>, FALSE)

\* C9: a call naming a tool that list-tools does not return ends in a
\* protocol-level error, issues no remote call and gives no tool result;
\* every tool list-tools returns is dispatched by call-tool.
C9_UnknownToolProtocolError ==
  request.kind = "call-tool" =>
    LET listed == { listTools(build)[i] : i \in 1..Len(listTools(build)) }
    IN /\ request.name \notin listed =>
            /\ pc = "done"
            /\ calls = <<>>
            /\ response.kind = "error"
       /\ request.name \in listed => response.error # ToolNotFound

C9_Witness ==
  /\ request.kind = "call-tool"
  /\ build = "http"
  /\ request.name = "gdrive_auth"
  /\ response = protocolError(ToolNotFound)

\* C10: when the list call of the search tool fails, the failure leaves the
\* handler as a protocol-level error carrying it; the search branch gives
\* no tool result for it.
C10_SearchFailurePropagates ==
  (calling("gdrive_search") /\ thrown # NoError) =>
    /\ pc = "done"
    /\ response.kind = "error"
    /\ response.error = thrown

C10_Witness ==
  /\ calling("gdrive_search")
  /\ auth
  /\ Len(calls) = 1
  /\ thrown.message = <<"Login Required.">>
  /\ response.kind = "error"

\* C11 as stated: the filter sent for query Q passes exactly the files that
\* are not trashed and whose name or full text contains Q.
C11_NameOrFullTextNotTrashed ==
  \A i \in 1..Len(calls) :
    (calling("gdrive_search") /\ calls[i].api = "files.list") =>
      \A f \in DriveFiles :
        filterMatches(calls[i].q, f) <=>
          /\ ~f.trashed
          /\ \/ contains(f.name, request.arguments.query.v)
             \/ contains(f.fullText, request.arguments.query.v)

\* C11, amended: the filter sent for query Q is the single clause
\* fullText contains 'Q': it passes exactly the files whose full text
\* contains Q, whatever their name and whether trashed or not.
C11_FullTextOnly ==
  \A i \in 1..Len(calls) :
    (calling("gdrive_search") /\ calls[i].api = "files.list") =>
      /\ calls[i].q[1] = "fullText contains "
      /\ literalClose(calls[i].q, 3) = Len(calls[i].q)
      /\ \A f \in DriveFiles :
           filterMatches(calls[i].q, f) <=>
             contains(f.fullText, request.arguments.query.v)

C11_Witness ==
  /\ calling("gdrive_search")
  /\ pc = "list"
  /\ request.arguments.query.v = <<"a", "'">>
  /\ filterMatches(calls[1].q, [name |-> <<>>, fullText |-> <<"a", "'">>, trashed |-> TRUE])
  /\ ~filterMatches(calls[1].q, [name |-> <<"a", "'">>, fullText |-> <<"a">>, trashed |-> FALSE])

\* The lines that follow the header line of a search text: the text after
\* the first line break, cut at each further line break.
splitLines(text) ==
  LET breaks == { i \in 1..Len(text) : text[i] = "\n" }
      \* the position of the k-th line break, 0 for k = 0 and one past the
      \* end for the break after the last line
      break(k) ==
        IF k = 0 THEN 0
        ELSE IF k > Cardinality(breaks) THEN Len(text) + 1
        ELSE CHOOSE i \in breaks : Cardinality({ j \in breaks : j < i }) = k - 1
  IN [k \in 1..(Cardinality(breaks) + 1) |->
        SubSeq(text, break(k - 1) + 1, break(k) - 1)]

listedLines(text) ==
  LET breaks == { i \in 1..Len(text) : text[i] = "\n" }
      first == CHOOSE i \in breaks : \A j \in breaks : i <= j
      rest == SubSeq(text, first + 1, Len(text))
  IN IF breaks = {} \/ rest = <<>> THEN <<>> ELSE splitLines(rest)

\* A search has answered with the files the remote returned.
searchReturned == calling("gdrive_search") /\ pc = "done" /\ files # NoFiles

\* C12: the search text lists the returned files in the order the remote
\* returned them, one line per file; the count in "Found n files:" is the
\* number of listed lines, and it is at most 10.
C12_OrderAndCount ==
  searchReturned =>
    LET lines == listedLines(response.text)
    IN /\ startsWith(response.text,
                      <<"Found ">> \o numberToString(Len(lines)) \o <<" files:", "\n">>)
       /\ Len(lines) = Len(files.list)
       /\ Len(lines) <= 10
       /\ \A i \in 1..Len(lines) :
            /\ startsWith(lines[i], files.list[i].name)
            /\ SubSeq(lines[i], Len(lines[i]) - Len(files.list[i].id) + 1, Len(lines[i]))
                 = files.list[i].id

\* C13: the search text reports, for each file found, its name, MIME type,
\* file ID, last modified time and size.
C13_AllFieldsReported ==
  searchReturned =>
    LET lines == listedLines(response.text)
    IN /\ Len(lines) >= Len(files.list)
       /\ \A i \in 1..Len(files.list) :
            /\ contains(lines[i], files.list[i].name)
            /\ contains(lines[i], files.list[i].mimeType)
            /\ contains(lines[i], files.list[i].id)
            /\ contains(lines[i], files.list[i].modifiedTime)
            /\ contains(lines[i], files.list[i].size)

\* A list-resources request has been answered with resources.
resourcesReturned ==
  request.kind = "list-resources" /\ pc = "done" /\ response.kind = "resources"

\* What list-resources does apart from choosing the page token: one list
\* call with page size 10; one descriptor per returned file, in order, with
\* URI "gdrive:///" + id; a next cursor equal to the remote's next-page
\* token, absent when the remote reports none.
listResourcesShape ==
  /\ request.kind = "list-resources" =>
       /\ Len(calls) = 1
       /\ calls[1].api = "files.list"
       /\ calls[1].pageSize = 10
  /\ resourcesReturned =>
       /\ Len(response.resources) = Len(files.list)
       /\ \A i \in 1..Len(files.list) :
            response.resources[i].uri = <<"gdrive:", "/", "/", "/">> \o files.list[i].id
       /\ response.nextCursor = nextPageToken

\* C14 as stated: the cursor is passed as the page token exactly when the
\* request carries one.
C14_ListResources ==
  /\ listResourcesShape
  /\ request.kind = "list-resources" =>
       calls[1].pageToken =
         IF request.cursor.t # "undefined" THEN request.cursor ELSE Undefined

\* C14, amended: the cursor is passed as the page token exactly when it is
\* a non-empty string; an absent or empty cursor gives no page token.
C14_ListResourcesNonEmptyCursor ==
  /\ listResourcesShape
  /\ request.kind = "list-resources" =>
       calls[1].pageToken =
         IF request.cursor.t = "string" /\ request.cursor.v # <<>>
         THEN request.cursor ELSE Undefined

C14_Witness ==
  /\ resourcesReturned
  /\ request.cursor = Str(<<"page2">>)
  /\ calls[1].pageToken = Str(<<"page2">>)
  /\ Len(response.resources) = 2
  /\ response.resources[1].uri = <<"gdrive:", "/", "/", "/", "xyz789">>
  /\ response.nextCursor = Str(<<"page3">>)

\* A read-resource request is in progress or answered.
readingResource == request.kind = "read-resource" /\ pc # "idle"

\* C15: read-resource on "gdrive:///" + F reads exactly F (every remote call
\* of the read names F, also when F contains "gdrive:///"), and answers with
\* a single content item carrying the request URI and the MIME type
\* readFileContent returned.
C15_UriRoundTrip ==
  /\ (readingResource /\ startsWith(request.uri, <<"gdrive:", "/", "/", "/">>)) =>
       /\ Len(calls) >= 1
       /\ \A i \in 1..Len(calls) :
            calls[i].fileId = Str(SubSeq(request.uri, 5, Len(request.uri)))
  /\ (readingResource /\ readReturned) =>
       /\ response.kind = "contents"
       /\ Len(response.contents) = 1
       /\ response.contents[1].uri = request.uri
       /\ response.contents[1].mimeType = readResult.mimeType
       /\ response.contents[1].text = readResult.content

C15_Witness ==
  /\ readingResource /\ readReturned
  /\ request.uri = <<"gdrive:", "/", "/", "/", "gdrive:", "/", "/", "/", "abc123">>
  /\ calls[1].fileId = Str(<<"gdrive:", "/", "/", "/", "abc123">>)
  /\ calls[2].fileId = Str(<<"gdrive:", "/", "/", "/", "abc123">>)
  /\ response.contents[1].mimeType = TextPlain
  /\ response.contents[1].text = <<65>>

\* The startup step taken while the credential file does not exist.
startsWithoutCredentials == phase = "starting" /\ ~credentials

\* C16 as stated: without a credential file the server does not exit; it
\* logs a warning and comes to accept requests.
C16_StartsWithoutCredentials ==
  [][startsWithoutCredentials =>
       /\ phase' = "running"
       /\ "warn: Credentials not found" \in console'
       /\ pc' = "idle"]_vars

\* C16, amended: without a credential file the stdio build does not exit,
\* logs a warning and comes to accept requests, while the build of
\* src/index.ts logs an error and exits without accepting any request.
C16_StartsWithoutCredentialsPerBuild ==
  [][startsWithoutCredentials =>
       IF build = "stdio"
       THEN /\ phase' = "running"
            /\ "warn: Credentials not found" \in console'
            /\ pc' = "idle"
       ELSE /\ phase' = "exited"
            /\ "error: Credentials not found" \in console'
            /\ request' = NoRequest]_vars

\* The stdio build, started without a credential file, is handling a request.
C16_Witness ==
  /\ build = "stdio"
  /\ phase = "running"
  /\ ~credentials
  /\ ~auth
  /\ console = {"warn: Credentials not found"}
  /\ request.kind = "call-tool"
  /\ pc = "list"

\* C17: while the process holds no authenticated client every request that
\* calls the remote fails with the remote's error, and once gdrive_auth has
\* saved credentials the remote calls of later requests are made with them.
C17_AuthFlowSuppliesCredentials ==
  /\ (~auth /\ pc = "done" /\ calls # <<>>) =>
       /\ thrown \in RemoteErrors
       /\ response.kind = "error" \/ response.isError
  /\ (phase = "running" /\ credentials /\ calls # <<>>) => auth

\* What a handler invocation took in: its request and the answers of the
\* remote calls it awaited.
received(h) == <<h.request, h.files, h.nextPageToken, h.thrown, h.file, h.body>>

\* The other invocation is exchanged with the running one, or left alone.
otherUntouched ==
  \/ parked' = parked
  \/ parked' = handler /\ handler' = parked

\* C18: no handler step changes the process-wide client once the server
\* runs, or the locals of the other request in progress; and two requests
\* with the same arguments that received the same remote answers end with
\* the same remote calls and the same result, however their steps were
\* interleaved.
C18_RequestsIndependent ==
  /\ [][phase # "starting" => auth' = auth]_vars
  /\ [][otherUntouched]_vars
  /\ []((pc = "done" /\ parked.pc = "done" /\ received(handler) = received(parked)) =>
          /\ response = parked.response
          /\ calls = parked.calls
          /\ readResult = parked.readResult)

\* Two reads of the same file, both past their two suspension points, with
\* the same remote answers.
C18_Witness ==
  /\ pc = "done"
  /\ parked.pc = "done"
  /\ request.kind = "call-tool" /\ request.name = "gdrive_read_file"
  /\ received(handler) = received(parked)
  /\ Len(calls) = 2
  /\ Len(parked.calls) = 2
  /\ ~response.isError
  /\ credentials /\ auth

\* The remote calls of the request in progress and of the suspended one.
issuedCalls ==
  { calls[i] : i \in 1..Len(calls) } \cup { parked.calls[i] : i \in 1..Len(parked.calls) }

\* C19: every remote call issued is a file list, a metadata get, a media
\* download or an export; gdrive_auth issues no call on remote documents.
C19_ReadOnlyCalls ==
  /\ \A c \in issuedCalls :
       \/ c.api = "files.list"
       \/ c.api = "files.get" /\ c.alt \in {"", "media"}
       \/ c.api = "files.export"
  /\ calling("gdrive_auth") => calls = <<>>

C19_Witness ==
  /\ pc = "done"
  /\ Len(calls) = 2
  /\ calls[1].api = "files.get" /\ calls[1].alt = ""
  /\ calls[2].api = "files.export"
  /\ readResult.mimeType = TextMarkdown

\* A readFileContent is in progress or has ended.
reading ==
  /\ pc # "idle"
  /\ request.kind = "read-resource" \/ (calling("gdrive_read_file") /\ calls # <<>>)

\* C20: a read issues the metadata get first and nothing else until it has
\* resolved; then exactly one content call, an export or a download; a
\* rejected call ends the read without another call, so a read issues at
\* most two calls and one whose metadata get rejects issues exactly one.
C20_SingleAttempt ==
  /\ [](reading =>
          /\ Len(calls) \in {1, 2}
          /\ calls[1].api = "files.get" /\ calls[1].alt = ""
          /\ pc = "metadata" => Len(calls) = 1
          /\ Len(calls) = 2 =>
               /\ pc \in {"export", "download", "done"}
               /\ \/ calls[2].api = "files.export"
                  \/ calls[2].api = "files.get" /\ calls[2].alt = "media"
               /\ calls[2].fileId = calls[1].fileId)
  /\ [][(reading /\ thrown' # NoError) => (calls' = calls /\ pc' = "done")]_vars
  /\ [][(reading /\ pc = "metadata" /\ thrown' # NoError) => Len(calls') = 1]_vars
  /\ [][reading =>
         \/ calls' = calls
         \/ pc' = "idle"
         \/ /\ pc = "metadata"
            /\ thrown' = NoError
            /\ Len(calls') = 2
            /\ calls'[1] = calls[1]]_vars

\* An export rejected after the metadata get had resolved.
C20_Witness ==
  /\ reading
  /\ pc = "done"
  /\ thrown \in RemoteErrors
  /\ Len(calls) = 2
  /\ calls[2].api = "files.export"
  /\ file = Str(GoogleDocument)

\* The step in which an endpoint takes a request and answers it.
mcpStep == exchange = NoExchange /\ exchange'.endpoint = "/mcp"
messagesStep == exchange = NoExchange /\ exchange'.endpoint = "/messages"

\* The request was answered 400 and nothing else happened: no transport
\* made, no map entry added or removed, no transport handed the request.
rejected ==
  /\ exchange'.status = 400
  /\ exchange'.transport = 0
  /\ ~exchange'.created
  /\ pool' = pool
  /\ transports' = transports

\* The session id is a string that is no key of the map.
absentFromMap(sessionId) ==
  sessionId.t = "string" /\ \A e \in transports : e.sessionId # sessionId.v

\* C21 as stated: /mcp makes a transport only for a POST without a
\* session-id header whose body is an initialize request; a request with a
\* session id absent from the map, and a request without a session id that
\* is not a POST initialize, is answered 400 with nothing made or handled.
C21_McpCreatesOnlyOnInitialize ==
  [][mcpStep =>
       /\ (exchange'.created \/ Len(pool') > Len(pool)) =>
            /\ exchange'.method = "POST"
            /\ exchange'.sessionId = Undefined
            /\ exchange'.body = "initialize"
       /\ absentFromMap(exchange'.sessionId) => rejected
       /\ (exchange'.sessionId = Undefined
             /\ ~(exchange'.method = "POST" /\ exchange'.body = "initialize")) => rejected]_vars

\* C21, amended: an empty session-id header counts as none.  /mcp makes a
\* transport only for a POST whose session-id header is absent or empty and
\* whose body is an initialize request; a request with a non-empty session
\* id absent from the map, and a request with no or an empty session id
\* that is not a POST initialize, is answered 400 with nothing made or
\* handled.
C21_McpCreatesOnlyOnInitializeNoId ==
  [][mcpStep =>
       LET noId == exchange'.sessionId \in {Undefined, Str(<<>>)}
           initialize == exchange'.method = "POST" /\ exchange'.body = "initialize"
       IN /\ (exchange'.created \/ Len(pool') > Len(pool)) => (noId /\ initialize)
          /\ (noId /\ initialize) => (exchange'.created /\ Len(pool') = Len(pool) + 1)
          /\ (~noId /\ absentFromMap(exchange'.sessionId)) => rejected
          /\ (noId /\ ~initialize) => rejected]_vars

\* A second session has just been initialized on /mcp.
C21_Witness ==
  /\ exchange.endpoint = "/mcp"
  /\ exchange.created
  /\ exchange.sessionId = Undefined
  /\ exchange.status = 200
  /\ exchange.transport = 2
  /\ [sessionId |-> <<"session-", "2">>, transport |-> 2] \in transports
  /\ Cardinality(transports) = 2

\* The kind of the transport a session id is registered for, "" if none.
registeredKind(sessionId) ==
  LET t == transportsAt(transports, sessionId)
  IN IF t > 0 THEN pool[t].kind ELSE ""

\* C22: a session id registered by /sse is rejected with 400 on /mcp, one
\* registered by a Streamable HTTP initialization is rejected with 400 on
\* /messages, and a request is handed only to a transport of the kind of
\* the endpoint it arrived on.
C22_NoProtocolCrossing ==
  /\ [][(mcpStep /\ registeredKind(exchange'.sessionId) = "sse") => rejected]_vars
  /\ [][(messagesStep /\ registeredKind(exchange'.sessionId) = "streamable") => rejected]_vars
  /\ [](exchange.transport # 0 =>
          pool[exchange.transport].kind =
            IF exchange.endpoint = "/mcp" THEN "streamable" ELSE "sse")

\* A request on /mcp carried the id of an open SSE session and was refused,
\* while a Streamable HTTP session exists as well.
C22_Witness ==
  /\ exchange.endpoint = "/mcp"
  /\ exchange.status = 400
  /\ exchange.transport = 0
  /\ exchange.sessionId = Str(<<"session-", "1">>)
  /\ [sessionId |-> <<"session-", "1">>, transport |-> 1] \in transports
  /\ pool[1].kind = "sse"
  /\ \E e \in transports : pool[e.transport].kind = "streamable"

\* The request carries the session id of a transport that has been closed.
carriesClosedId ==
  \E t \in 1..Len(pool) :
    /\ pool[t].closed
    /\ pool[t].sessionId # <<>>
    /\ exchange'.sessionId = Str(pool[t].sessionId)

\* C23: every session id in the map refers to a transport that has not
\* been closed.  A Streamable HTTP entry is added only by the initialize
\* request that gives the transport its session, an SSE entry only when
\* /sse opens the stream; an entry goes only when its transport or its
\* connection has closed; and a request that carries the id of a closed
\* transport is answered 400 and handed to no transport.
C23_MapHoldsOpenTransports ==
  /\ [](\A e \in transports :
          /\ ~pool[e.transport].closed
          /\ pool[e.transport].sessionId = e.sessionId)
  /\ [][\A e \in transports' \ transports :
          /\ exchange = NoExchange
          /\ exchange'.transport = e.transport
          /\ exchange'.status = 200
          /\ IF pool'[e.transport].kind = "streamable"
             THEN /\ exchange'.endpoint = "/mcp"
                  /\ exchange'.method = "POST"
                  /\ exchange'.body = "initialize"
             ELSE exchange'.endpoint = "/sse"]_vars
  /\ [][\A e \in transports \ transports' : pool'[e.transport].closed]_vars
  /\ [][((mcpStep \/ messagesStep) /\ carriesClosedId) => rejected]_vars

\* A request on /mcp carried the id of a Streamable HTTP session that had
\* been closed, and was refused, while another session is open.
C23_Witness ==
  /\ exchange.endpoint = "/mcp"
  /\ exchange.status = 400
  /\ exchange.transport = 0
  /\ exchange.sessionId = Str(<<"session-", "1">>)
  /\ Len(pool) = 2
  /\ pool[1].kind = "streamable"
  /\ pool[1].closed
  /\ transports = {[sessionId |-> <<"session-", "2">>, transport |-> 2]}

====
